---------------------------- MODULE Spec2Model ----------------------------
(***************************************************************************)
(* web3-audit-intelligence: the collection pipeline (Code4renaCollector on *)
(* top of BaseCollector), the process entry point run.py (scheduler task   *)
(* and API task on one asyncio event loop) and the read API of routes.py.  *)
(*                                                                         *)
(* Two specifications:                                                     *)
(*   Spec     the Collector component: collect(limit) called on a          *)
(*            collector object (a concrete subclass that supplies          *)
(*            parse_report), against an index page, detail pages, a clock  *)
(*            and a file system chosen by the environment;                 *)
(*   RunSpec  the process started by run.py main(): the API task and the   *)
(*            start_collectors task (FairRunSpec adds the event loop's     *)
(*            fairness).                                                   *)
(*                                                                         *)
(* Texts (element texts, titles) are sequences of one-character strings so *)
(* that str.strip() and int() are computed, not assumed.                   *)
(***************************************************************************)
EXTENDS Integers, Sequences, FiniteSets, TLC

\* ----------------------------------------------------------------- bounds
\* cards on one index page
MaxCards == 2
\* collect() calls made by the caller of the component
MaxCalls == 2
\* seconds that may elapse
MaxClock == 1
\* API requests that arrive
MaxRequests == 3

VARIABLES
  pc,         \* collect(): "idle" | "loop" | "done" (returned) | "raised" (exception escaped)
  limit,      \* collect()'s argument
  listed,     \* number of contest cards on the fetched index page
  contests,   \* get_contests()'s result, the batch
  inputs,     \* what the environment served for each contest processed so far
  reports,    \* collect()'s local list `reports` (its return value once pc = "done")
  errLog,     \* slugs named by this call's logger.error entries, in order
  exc,        \* the exception that escaped collect(), "" if none
  files,      \* data/raw: path -> content
  saves,      \* every path save_raw_data opened for writing, in order
  now,        \* the clock, in seconds
  calls,      \* collect() calls started
  store,      \* table audit_reports: id -> row
  schedPc,    \* start_collectors task: "start" | "collect" | "sleep" | "crashed"
  sleepFor,   \* the sleep start_collectors is in (seconds), 0 if none
  pending,    \* API requests accepted and not yet handled
  responses,  \* number of API responses sent
  lastResp,   \* the last API response
  arrived     \* API requests that have arrived

collectorVars == <<pc, limit, listed, contests, inputs, reports, errLog, exc,
                   files, saves, now, calls>>
runVars == <<schedPc, sleepFor, pending, responses, lastResp, arrived>>
vars == <<pc, limit, listed, contests, inputs, reports, errLog, exc,
          files, saves, now, calls, store,
          schedPc, sleepFor, pending, responses, lastResp, arrived>>

\* ------------------------------------------------------------------ texts
IsSpace(c) == c = " "

Digits == {"0", "1", "2", "3", "4", "5", "6", "7", "8", "9"}

DigitVal(c) == CASE c = "0" -> 0 [] c = "1" -> 1 [] c = "2" -> 2 [] c = "3" -> 3
                 [] c = "4" -> 4 [] c = "5" -> 5 [] c = "6" -> 6 [] c = "7" -> 7
                 [] c = "8" -> 8 [] c = "9" -> 9

RECURSIVE LStrip(_)
LStrip(t) == IF t = <<>> THEN <<>>
             ELSE IF IsSpace(Head(t)) THEN LStrip(Tail(t)) ELSE t

RECURSIVE RStrip(_)
RStrip(t) == IF t = <<>> THEN <<>>
             ELSE IF IsSpace(t[Len(t)]) THEN RStrip(SubSeq(t, 1, Len(t) - 1)) ELSE t

\* str.strip()
Strip(t) == RStrip(LStrip(t))

RECURSIVE DecimalValue(_)
DecimalValue(t) == IF t = <<>> THEN 0
                   ELSE 10 * DecimalValue(SubSeq(t, 1, Len(t) - 1)) + DigitVal(t[Len(t)])

\* int(text): surrounding whitespace is ignored; anything but a non-empty run
\* of digits raises ValueError
ParseInt(t) ==
  LET s == Strip(t)
  IN  IF s # <<>> /\ \A i \in 1..Len(s) : s[i] \in Digits
        THEN [raised |-> FALSE, val |-> DecimalValue(s)]
        ELSE [raised |-> TRUE, val |-> 0]


\* ------------------------------------------------- HTML pages (the inputs)
\* An element or attribute looked up in a page: found or not, with its text.
Node(t) == [present |-> TRUE, text |-> t]
NoNode  == [present |-> FALSE, text |-> <<>>]
Attr(v) == [present |-> TRUE, val |-> v]
NoAttr  == [present |-> FALSE, val |-> ""]

\* element.get(name, default)
AttrGet(a, default) == IF a.present THEN a.val ELSE default

\* div.contest-card elements an index page may hold: its data-slug attribute
\* and its first h3
Cards ==
  { [slug |-> Attr("a"), h3 |-> Node(<<"A">>)],
    [slug |-> Attr("b"), h3 |-> Node(<<" ", "B", " ">>)],
    [slug |-> NoAttr,    h3 |-> Node(<<"A">>)],
    [slug |-> Attr("a"), h3 |-> Node(<<" ">>)],
    [slug |-> Attr("b"), h3 |-> NoNode] }

RECURSIVE SeqsUpTo(_, _)
SeqsUpTo(S, n) == IF n = 0 THEN {<<>>}
                  ELSE LET shorter == SeqsUpTo(S, n - 1)
                       IN  shorter \cup {Append(s, x) : s \in {q \in shorter : Len(q) = n - 1}, x \in S}

\* the index pages: the cards found by find_all('div', class_='contest-card')
IndexPages == SeqsUpTo(Cards, MaxCards)

\* limits a caller may pass (run.py passes 5; the default is 10)
Limits == -1 .. (MaxCards + 1)

\* a div.finding element: data-severity, first h4, first p
FindingHigh == [severity |-> Attr("high"), h4 |-> Node(<<" ", "X">>), p |-> Node(<<"D", " ">>)]
FindingBare == [severity |-> NoAttr, h4 |-> NoNode, p |-> NoNode]

\* contest detail pages: the div.finding elements, the div.prize-pool element
\* and the span.participants-count element
PageFull    == [findings |-> <<FindingHigh, FindingBare>>,
                prize |-> Node(<<" ", "5", "0">>), participants |-> Node(<<"1", "2", " ">>)]
PageBare    == [findings |-> <<>>, prize |-> NoNode, participants |-> NoNode]
PageWardens == [findings |-> <<FindingHigh>>,
                prize |-> NoNode, participants |-> Node(<<"1", "2", " ", "w">>)]
DetailPages == {PageFull, PageBare, PageWardens}

\* --------------------------------------------------------- BaseCollector
\* names bound at module level in base_collector.py (its imports and class)
BaseCollectorGlobals == {"ABC", "abstractmethod", "Dict", "List", "Any",
                         "logging", "datetime", "BaseCollector"}

\* methods BaseCollector declares with @abstractmethod
AbstractMethods == {"collect", "parse_report"}

\* BaseCollector.__init__(name), called by Code4renaCollector.__init__
CollectorName == "Code4rena"

\* validate_data: every required key is present in the dict
RequiredFields == {"title", "platform", "date", "findings"}
validate_data(data) == \A f \in RequiredFields : f \in DOMAIN data

\* datetime.now().strftime('%Y%m%d_%H%M%S'): the clock read to the second; two
\* reads with no Tick between them fall in the same second
Timestamp(t) == <<"S", t>>

\* datetime.now().isoformat()
IsoFormat(t) == <<"T", t>>

\* f"data/raw/{self.name}_{filename}_{timestamp}.json"
FilePath(name, filename, t) == <<"data/raw", name, filename, Timestamp(t)>>

\* open(filepath, 'w'): the file exists and is empty
Truncated(fs, path) == [p \in DOMAIN fs \cup {path} |-> IF p = path THEN <<>> ELSE fs[p]]

\* json.dump(data, f): `json` is looked up in base_collector's globals
JsonDump(fs, path, data) ==
  IF "json" \in BaseCollectorGlobals
    THEN [raised |-> FALSE, exc |-> "", fs |-> [fs EXCEPT ![path] = <<data>>]]
    ELSE [raised |-> TRUE, exc |-> "NameError", fs |-> fs]

\* save_raw_data(data, filename) at time t; openOk: whether open() succeeds
save_raw_data(fs, data, filename, t, openOk) ==
  LET path == FilePath(CollectorName, filename, t)
  IN  IF ~openOk
        THEN [raised |-> TRUE, exc |-> "OSError", fs |-> fs, opened |-> <<>>]
        ELSE LET d == JsonDump(Truncated(fs, path), path, data)
             IN  [raised |-> d.raised, exc |-> d.exc, fs |-> d.fs, opened |-> <<path>>]

\* -------------------------------------------------- Code4renaCollector
base_url == "https://code4rena.com"

\* methods class Code4renaCollector defines
Code4renaMethods == {"__init__", "collect", "get_contests", "collect_contest_data",
                     "extract_findings", "extract_prize_pool", "extract_participants"}

\* Code4renaCollector(): ABCMeta refuses to instantiate a class that leaves an
\* abstract method undefined
Instantiate == IF AbstractMethods \subseteq Code4renaMethods
                 THEN [raised |-> FALSE, exc |-> ""]
                 ELSE [raised |-> TRUE, exc |-> "TypeError"]

\* Python's s[:n]
Slice(s, n) == IF n >= 0
                 THEN SubSeq(s, 1, IF n < Len(s) THEN n ELSE Len(s))
                 ELSE SubSeq(s, 1, IF Len(s) + n > 0 THEN Len(s) + n ELSE 0)

ContestUrl(slug) == <<base_url, "contests", slug>>

\* lines 39-41 and 47-54 of get_contests on the selected elements;
\* fetchOk: whether session.get / response.text succeed
ContestsOf(els, fetchOk) ==
  IF ~fetchOk THEN [raised |-> TRUE, exc |-> "ClientError", value |-> <<>>]
  ELSE IF \E i \in 1..Len(els) : ~els[i].h3.present
    \* element.find('h3') is None: None.text
    THEN [raised |-> TRUE, exc |-> "AttributeError", value |-> <<>>]
    ELSE [raised |-> FALSE, exc |-> "",
          value |-> [i \in 1..Len(els) |->
                       [slug  |-> AttrGet(els[i].slug, ""),
                        title |-> Strip(els[i].h3.text),
                        url   |-> ContestUrl(AttrGet(els[i].slug, ""))]]]

\* get_contests without the [:limit] of line 45
get_contests_unlimited(page, lim, fetchOk) == ContestsOf(page, fetchOk)

\* get_contests(session, limit): find_all(...)[:limit], then one summary per element
get_contests(page, lim, fetchOk) == ContestsOf(Slice(page, lim), fetchOk)

extract_findings(soup) ==
  [i \in 1..Len(soup.findings) |->
     [severity    |-> AttrGet(soup.findings[i].severity, "unknown"),
      title       |-> IF soup.findings[i].h4.present THEN Strip(soup.findings[i].h4.text) ELSE <<>>,
      description |-> IF soup.findings[i].p.present THEN Strip(soup.findings[i].p.text) ELSE <<>>]]

extract_prize_pool(soup) ==
  IF soup.prize.present THEN Strip(soup.prize.text) ELSE <<"N", "/", "A">>

\* int(participants_element.text) if participants_element else 0
extract_participants(soup) ==
  IF soup.participants.present THEN ParseInt(soup.participants.text)
  ELSE [raised |-> FALSE, val |-> 0]

\* collect_contest_data(session, contest) at time t
collect_contest_data(contest, fetchOk, soup, t) ==
  IF ~fetchOk THEN [raised |-> TRUE, exc |-> "ClientError"]
  ELSE IF extract_participants(soup).raised THEN [raised |-> TRUE, exc |-> "ValueError"]
  ELSE [raised |-> FALSE, exc |-> "",
        value |-> [platform     |-> "Code4rena",
                   title        |-> contest.title,
                   url          |-> contest.url,
                   date         |-> IsoFormat(t),
                   findings     |-> extract_findings(soup),
                   prize_pool   |-> extract_prize_pool(soup),
                   participants |-> extract_participants(soup).val]]

\* what the environment serves while one contest is processed: whether the
\* detail fetch succeeds, the page it returns, whether open() succeeds
DetailInputs ==
  { [fetchOk |-> FALSE, soup |-> PageBare, openOk |-> TRUE] }
  \cup { [fetchOk |-> TRUE, soup |-> sp, openOk |-> o] : sp \in {PageFull, PageBare}, o \in BOOLEAN }
  \cup { [fetchOk |-> TRUE, soup |-> PageWardens, openOk |-> TRUE] }

\* ------------------------------------------------------------ collect()
\* collect(limit) up to the end of get_contests: lines 19-23.  get_contests
\* is called outside the try block, so what it raises leaves collect().
CollectStart(lim, page, fetchOk) ==
  /\ pc \in {"idle", "done", "raised"}
  /\ calls < MaxCalls
  /\ calls' = calls + 1
  /\ limit' = lim
  /\ listed' = Len(page)
  /\ inputs' = <<>>
  /\ reports' = <<>>
  /\ errLog' = <<>>
  /\ LET r == get_contests(page, lim, fetchOk)
     IN  /\ pc' = IF r.raised THEN "raised" ELSE "loop"
         /\ exc' = r.exc
         /\ contests' = r.value
  /\ UNCHANGED <<files, saves, now, store>>
  /\ UNCHANGED runVars

\* one iteration of `for contest in contests`: lines 25-32
ProcessContest(in) ==
  /\ pc = "loop"
  /\ Len(inputs) < Len(contests)
  /\ LET contest == contests[Len(inputs) + 1]
         r == collect_contest_data(contest, in.fetchOk, in.soup, now)
     IN  IF r.raised
           THEN /\ errLog' = Append(errLog, [slug |-> contest.slug, exc |-> r.exc])
                /\ UNCHANGED <<reports, files, saves>>
           ELSE \* `if report:` holds for every non-empty dict
                LET s == save_raw_data(files, r.value, contest.slug, now, in.openOk)
                IN  /\ reports' = Append(reports, r.value)
                    /\ files' = s.fs
                    /\ saves' = saves \o s.opened
                    /\ errLog' = IF s.raised
                                   THEN Append(errLog, [slug |-> contest.slug, exc |-> s.exc])
                                   ELSE errLog
  /\ inputs' = Append(inputs, in)
  /\ UNCHANGED <<pc, limit, listed, contests, exc, now, calls, store>>
  /\ UNCHANGED runVars

\* lines 34-35
CollectReturn ==
  /\ pc = "loop"
  /\ Len(inputs) = Len(contests)
  /\ pc' = "done"
  /\ UNCHANGED <<limit, listed, contests, inputs, reports, errLog, exc,
                 files, saves, now, calls, store>>
  /\ UNCHANGED runVars

\* time passes
Tick ==
  /\ now < MaxClock
  /\ now' = now + 1
  /\ UNCHANGED <<pc, limit, listed, contests, inputs, reports, errLog, exc,
                 files, saves, calls, store>>
  /\ UNCHANGED runVars

\* a response: status code, message or error detail, rows of the body
Response(status, detail, rows) == [status |-> status, detail |-> detail, rows |-> rows]

CollectorInit ==
  /\ pc = "idle"
  /\ limit = 0
  /\ listed = 0
  /\ contests = <<>>
  /\ inputs = <<>>
  /\ reports = <<>>
  /\ errLog = <<>>
  /\ exc = ""
  /\ files = <<>>
  /\ saves = <<>>
  /\ now = 0
  /\ calls = 0

\* setup_db.py creates the tables empty
StoreInit == store = <<>>

RunInit ==
  /\ schedPc = "start"
  /\ sleepFor = 0
  /\ pending = <<>>
  /\ responses = 0
  /\ lastResp = Response(0, "", <<>>)
  /\ arrived = 0

Init == CollectorInit /\ StoreInit /\ RunInit

Next ==
  \/ \E lim \in Limits, page \in IndexPages : CollectStart(lim, page, TRUE)
  \/ \E lim \in Limits : CollectStart(lim, <<>>, FALSE)
  \/ \E in \in DetailInputs : ProcessContest(in)
  \/ CollectReturn
  \/ Tick

Spec == Init /\ [][Next]_vars

\* one collect() call, on every input
CallNext ==
  \/ \E lim \in Limits, page \in IndexPages : calls = 0 /\ CollectStart(lim, page, TRUE)
  \/ \E lim \in Limits : calls = 0 /\ CollectStart(lim, <<>>, FALSE)
  \/ \E in \in DetailInputs : ProcessContest(in)
  \/ CollectReturn
  \/ Tick

CallSpec == Init /\ [][CallNext]_vars


\* ------------------------------------------------------------ routes.py
\* DatabaseOperations.get_report_by_id: the row with that id, if any
get_report_by_id(db, id) ==
  IF id \in DOMAIN db THEN [found |-> TRUE, row |-> db[id]] ELSE [found |-> FALSE]

RECURSIVE RowsFrom(_, _)
RowsFrom(db, ids) ==
  IF ids = {} THEN <<>>
  ELSE LET lo == CHOOSE i \in ids : \A j \in ids : i <= j
       IN  <<db[lo]>> \o RowsFrom(db, ids \ {lo})

\* DatabaseOperations.get_reports: the rows of that platform ("" for any), at most `lim`
get_reports_rows(db, platform, lim) ==
  Slice(RowsFrom(db, {i \in DOMAIN db : platform = "" \/ db[i].platform = platform}), lim)

\* limit: int = Query(10, ge=1, le=100)
LimitMin == 1
LimitMax == 100

\* GET /
root == Response(200, "Web3 Audit Intelligence System API", <<>>)

\* GET /reports
get_reports(db, platform, lim) ==
  IF lim < LimitMin \/ lim > LimitMax THEN Response(422, "limit", <<>>)
  ELSE Response(200, "", get_reports_rows(db, platform, lim))

\* GET /reports/{report_id}
get_report(db, report_id) ==
  LET report == get_report_by_id(db, report_id)
  IN  IF ~report.found THEN Response(404, "Report not found", <<>>)
      ELSE Response(200, "", <<report.row>>)

\* POST /collect: answers, starts nothing
trigger_collection(platform) == Response(200, "Collection started for " \o platform, <<>>)

Requests ==
  { [route |-> "root",    platform |-> "", n |-> 0],
    [route |-> "reports", platform |-> "", n |-> 10],
    [route |-> "reports", platform |-> "Code4rena", n |-> 101],
    [route |-> "report",  platform |-> "", n |-> 1],
    [route |-> "collect", platform |-> "Code4rena", n |-> 0] }

Route(db, req) ==
  CASE req.route = "root"    -> root
    [] req.route = "reports" -> get_reports(db, req.platform, req.n)
    [] req.route = "report"  -> get_report(db, req.n)
    [] req.route = "collect" -> trigger_collection(req.platform)

\* --------------------------------------------------------------- run.py
\* await asyncio.sleep(3600) after collect() returned, asyncio.sleep(60)
\* after an exception
NormalInterval == 3600
RetryInterval == 60

\* the server task accepts a request
RequestArrives(req) ==
  /\ arrived < MaxRequests
  /\ arrived' = arrived + 1
  /\ pending' = Append(pending, req)
  /\ UNCHANGED <<schedPc, sleepFor, responses, lastResp, store>>
  /\ UNCHANGED collectorVars

\* the server task runs the handler of the oldest pending request
HandleRequest ==
  /\ pending # <<>>
  /\ lastResp' = Route(store, Head(pending))
  /\ responses' = responses + 1
  /\ pending' = Tail(pending)
  /\ UNCHANGED <<schedPc, sleepFor, arrived, store>>
  /\ UNCHANGED collectorVars

\* the start_collectors task, from one suspension point to the next.
\*   "start":   line 9, Code4renaCollector(), outside the try block: what it
\*              raises ends the task
\*   "collect": lines 11-16, collect(limit=5) returns or raises, then the
\*              task is in sleep(3600) or sleep(60)
\*   "sleep":   the sleep is over, back to the head of `while True`
\* Code4renaCollector leaves parse_report abstract, so Instantiate raises and
\* the task ends in "start": the loop of lines 10-16 is never entered.
SchedulerStep ==
  /\ schedPc \in {"start", "collect", "sleep"}
  /\ IF schedPc = "start"
       THEN /\ schedPc' = IF Instantiate.raised THEN "crashed" ELSE "collect"
            /\ sleepFor' = 0
       ELSE IF schedPc = "collect"
         THEN \E escaped \in BOOLEAN :
                /\ schedPc' = "sleep"
                /\ sleepFor' = IF escaped THEN RetryInterval ELSE NormalInterval
         ELSE /\ schedPc' = "collect"
              /\ sleepFor' = 0
  /\ UNCHANGED <<pending, responses, lastResp, arrived, store>>
  /\ UNCHANGED collectorVars

RunNext ==
  \/ \E req \in Requests : RequestArrives(req)
  \/ HandleRequest
  \/ SchedulerStep

\* main(): both tasks created on one event loop, run_forever()
RunSpec == Init /\ [][RunNext]_vars

\* the event loop runs every task that is ready
FairRunSpec == RunSpec /\ WF_vars(HandleRequest) /\ WF_vars(SchedulerStep)


\* ================================================================ claims
\* what the specification calls a valid record: non-empty title, platform
\* and date, and a findings key
SpecValid(r) ==
  /\ RequiredFields \subseteq DOMAIN r
  /\ r.title # <<>>
  /\ r.platform # ""
  /\ r.date # <<>>

\* contest i of the batch failed: its detail fetch raised, its page did not
\* parse, or its record is not valid
ContestFailed(i) ==
  \/ collect_contest_data(contests[i], inputs[i].fetchOk, inputs[i].soup, 0).raised
  \/ ~SpecValid(collect_contest_data(contests[i], inputs[i].fetchOk, inputs[i].soup, 0).value)

RECURSIVE Survivors(_)
Survivors(n) ==
  IF n = 0 THEN <<>>
  ELSE IF ContestFailed(n) THEN Survivors(n - 1)
  ELSE Append(Survivors(n - 1), [title |-> contests[n].title, url |-> contests[n].url])

\* C1: when collect() returns, every contest of the batch has been processed,
\* the returned sequence is the contests that did not fail (detail fetch
\* error, parse error, validation failure), in index order, and the error
\* log names the slug of every contest that failed.
C1_PartialFailure ==
  pc = "done" =>
    /\ Len(inputs) = Len(contests)
    /\ [i \in 1..Len(reports) |-> [title |-> reports[i].title, url |-> reports[i].url]]
         = Survivors(Len(contests))
    /\ \A i \in 1..Len(contests) :
         ContestFailed(i) => \E k \in 1..Len(errLog) : errLog[k].slug = contests[i].slug

\* C2: every record collect() holds for return, and every record in the
\* raw-data sink, is valid; a record with an empty title is neither returned
\* nor given a raw file.
C2_OnlyValidRecords ==
  /\ \A i \in 1..Len(reports) : SpecValid(reports[i])
  /\ \A p \in DOMAIN files : \A k \in 1..Len(files[p]) : SpecValid(files[p][k])
  /\ pc = "done" =>
       \A i \in 1..Len(contests) :
         (inputs[i].fetchOk /\ contests[i].title = <<>>) =>
           /\ \A k \in 1..Len(reports) : reports[k].url # contests[i].url \/ reports[k].title # <<>>
           /\ \A p \in DOMAIN files : p[3] # contests[i].slug

\* C3: when collect() returns, every returned report has its raw record in
\* the sink, and every file the call opened holds the record of a returned
\* report.
C3_ReturnedImpliesPersisted ==
  pc = "done" =>
    /\ \A i \in 1..Len(reports) : \E p \in DOMAIN files : files[p] = <<reports[i]>>
    /\ \A p \in DOMAIN files :
         files[p] # <<>> => \E i \in 1..Len(reports) : files[p] = <<reports[i]>>

\* no contest of the batch raised in collect_contest_data
NoContestRaised ==
  \A i \in 1..Len(inputs) :
    ~collect_contest_data(contests[i], inputs[i].fetchOk, inputs[i].soup, 0).raised

\* C4: for limit N >= 0, collect() never holds more than N reports, nor more
\* than the K contests the index page lists; and when it returns with K < N
\* and no contest failed, it returns exactly K.
C4_AtMostLimit ==
  limit >= 0 =>
    /\ Len(contests) <= limit
    /\ Len(reports) <= limit
    /\ Len(reports) <= listed
    /\ (pc = "done" /\ listed < limit /\ NoContestRaised) => Len(reports) = listed

\* C4 witness: a page listing more contests than the limit, truncated to the
\* limit, every one collected
C4_Witness ==
  pc = "done" /\ limit > 0 /\ listed > limit /\ Len(reports) = limit

\* C5: when collect() returns, every returned report is a row of the reports
\* store that GET /reports/{id} serves with the same platform, title and url.
C5_RoundTrip ==
  pc = "done" =>
    \A i \in 1..Len(reports) :
      \E id \in 1..(MaxCards * MaxCalls) :
        /\ get_report(store, id).status = 200
        /\ get_report(store, id).rows[1].platform = reports[i].platform
        /\ get_report(store, id).rows[1].title = reports[i].title
        /\ get_report(store, id).rows[1].url = reports[i].url

\* C6: extract_participants never raises on a fetched page, and a contest
\* whose page has a non-numeric participant count is still collected, with
\* participants = 0.
C6_ParticipantsDefault ==
  \A i \in 1..Len(inputs) :
    inputs[i].fetchOk =>
      /\ ~extract_participants(inputs[i].soup).raised
      /\ (inputs[i].soup.participants.present
            /\ ParseInt(inputs[i].soup.participants.text).raised) =>
           \E k \in 1..Len(reports) :
             reports[k].url = contests[i].url /\ reports[k].participants = 0

\* C7: no exception escapes collect(): a call never ends by raising, whatever
\* the index fetch and the index page are.
C7_NothingEscapesCollect == pc # "raised"

\* C8: the scheduler loop has no terminal state, and every sleep it is in is
\* the 3600 s one (collect() returned) or the 60 s one (an exception escaped).
C8_SchedulerLoop ==
  /\ schedPc # "crashed"
  /\ schedPc = "sleep" => sleepFor \in {NormalInterval, RetryInterval}

\* C9: no raw-sink path is opened for writing twice: two successful
\* collections never share data/raw/{platform}_{slug}_{timestamp}.json.
C9_OneFilePerCollection ==
  \A i, j \in 1..Len(saves) : i # j => saves[i] # saves[j]

\* C10: every API request that arrives is eventually answered, and the
\* scheduler task reaches a collect() tick again and again.
C10_BothTasksProgress ==
  /\ \A n \in 1..MaxRequests : (arrived >= n) ~> (responses >= n)
  /\ []<>(schedPc = "collect")

=============================================================================
